---- MODULE Spec2Model ----
(***************************************************************************)
(* The per-frame update loop of src/src/App.tsx: the shared PlayerState     *)
(* record, the joystick handlers (handleMove, handleStop) and the five      *)
(* useFrame callbacks (LoadingScreen, ChessboardPlane, Player,              *)
(* FollowCamera, SkyBox).                                                   *)
(*                                                                          *)
(* Numbers.  JavaScript numbers are held in fixed point: lengths, speeds    *)
(* and percentages in hundredths (Scale); unit fractions (the normalised    *)
(* stick magnitude, sines and cosines) and the camera's position, whose     *)
(* steps are small, in ten-thousandths (Fine); angles in whole degrees.     *)
(* The joystick inputs are taken on the eight compass directions, where     *)
(* the heading is a whole number of degrees.                                *)
(*                                                                          *)
(* Scheduling.  Everything runs on one thread.  A rendered frame runs the   *)
(* mounted useFrame callbacks in subscription order, which is the order of  *)
(* the siblings at App.tsx:234-237 (ChessboardPlane, Player, FollowCamera,  *)
(* SkyBox); React then re-renders with the state the frame published, and   *)
(* only then do the callbacks' closures see it.  A joystick event is        *)
(* handled between two frames, before or after the frame's render, and is   *)
(* rendered (with whatever the frame published) before the next frame.      *)
(***************************************************************************)
EXTENDS Integers, Sequences, FiniteSets, TLC

VARIABLES
  playerState,  \* App's React state (App.tsx:188-193), pending updates applied
  rendered,     \* the PlayerState of the last render: what props and closures hold
  group,        \* the Player's scene node: [position, rotation] (App.tsx:109)
  camera,       \* camera.position (App.tsx:228, 79), in 1/Fine
  plane,        \* the ground plane mesh's position (App.tsx:146, 151)
  skybox,       \* the skybox mesh's position (App.tsx:174, 179)
  progress,     \* LoadingScreen's state (App.tsx:25)
  loading,      \* TRUE while Suspense shows the fallback (App.tsx:231)
  loadFrames,   \* frames rendered while the fallback is shown
  phase,        \* the last useFrame callback run in the current frame, or "idle"
  frames,       \* frames started since the scene mounted
  lastOp,       \* history: the last operation, its input, whether it set the state
  scenario,     \* history: how far the run has followed the move/frame/stop script
  camStart,     \* history: camera.position when FollowCamera's target last changed
  camTarget,    \* history: FollowCamera's current desiredPosition
  camSteps,     \* history: FollowCamera frames run toward camTarget
  camPow        \* history: 0.97^camSteps in ten-millionths, rounded at each step

vars == <<playerState, rendered, group, camera, plane, skybox, progress, loading,
          loadFrames, phase, frames, lastOp, scenario, camStart, camTarget, camSteps, camPow>>

----------------------------------------------------------------------------
(* Fixed point *)

Scale == 100
Fine == 10000

(* Bounds of the model *)
MaxFrames == 3
MaxLoadFrames == 202
MaxCamFrames == 103
MaxCamLead == 2

(* Program constants, in the source's units *)
maxSpeed == 55
stickRange == 50
cameraOffsetY == 45
lerpFactor == 3
initialHp == 100
progressCap == 100
cameraStartY == 615

Abs(a) == IF a < 0 THEN -a ELSE a

min(a, b) == IF a <= b THEN a ELSE b

\* a / b rounded toward zero
DivT(a, b) == IF a >= 0 THEN a \div b ELSE -((-a) \div b)

Add(u, v) == <<u[1] + v[1], u[2] + v[2], u[3] + v[3]>>

initialPosition == <<0, (23 * Scale) \div 2, 0>>

initialState ==
  [position |-> initialPosition, rotation |-> 0, speed |-> 0, hp |-> initialHp]

cameraStart == <<0, cameraStartY * Fine, 0>>

cameraOffset == <<0, cameraOffsetY * Fine, 0>>

\* a position in hundredths, in 1/Fine
ToFine(p) ==
  <<p[1] * (Fine \div Scale), p[2] * (Fine \div Scale), p[3] * (Fine \div Scale)>>

origin == <<0, 0, 0>>

----------------------------------------------------------------------------
(* Joystick events: a coordinate is <<v>>, or <<>> for null *)

Null == <<>>

IsNull(c) == c = Null

\* a coordinate in arithmetic: null coerces to 0
Val(c) == IF IsNull(c) THEN 0 ELSE c[1]

Ev(x, y) == [x |-> <<x>>, y |-> <<y>>]

NoEvent == [x |-> Null, y |-> Null]

JoyInputs ==
  { Ev(0, -50), Ev(50, 50), Ev(-40, 0), Ev(10, -10), Ev(0, 25), Ev(0, 0),
    [x |-> Null, y |-> <<-50>>], [x |-> <<50>>, y |-> Null], NoEvent }

CamInputs == { Ev(0, -50), Ev(10, -10), Ev(0, 0), [x |-> Null, y |-> <<-50>>] }

----------------------------------------------------------------------------
(* handleMove's arithmetic *)

RECURSIVE SqrtSearch(_, _, _)
SqrtSearch(v, lo, hi) ==
  IF lo >= hi THEN lo
  ELSE LET mid == (lo + hi + 1) \div 2
       IN  IF mid * mid <= v THEN SqrtSearch(v, mid, hi)
           ELSE SqrtSearch(v, lo, mid - 1)

\* Math.sqrt(n), in hundredths
Sqrt(n) == SqrtSearch(n * Scale * Scale, 0, 32768)

\* Math.atan2(a, b) in degrees, on the compass directions.  The caller passes
\* b = -y, and -y is -0 when y is 0: atan2(0, -0) is pi, atan2(a, -0) is
\* +-pi/2.
Atan2(a, b) ==
  CASE a = 0 /\ b > 0 -> 0
    [] a = 0 /\ b <= 0 -> 180
    [] a > 0 /\ b = 0 -> 90
    [] a < 0 /\ b = 0 -> -90
    [] a > 0 /\ b > 0 -> 45
    [] a > 0 /\ b < 0 -> 135
    [] a < 0 /\ b > 0 -> -45
    [] a < 0 /\ b < 0 -> -135

\* variant: the magnitude without Math.min(1, .)
distanceUnclamped(x, y) == (Sqrt(x * x + y * y) * Fine) \div (stickRange * Scale)

\* const distance = Math.min(1, Math.sqrt(x * x + y * y) / 50), in 1/Fine
distance(x, y) == min(Fine, (Sqrt(x * x + y * y) * Fine) \div (stickRange * Scale))

\* const newSpeed = distance * maxSpeed, in hundredths
newSpeed(x, y) == (distance(x, y) * maxSpeed * Scale) \div Fine

----------------------------------------------------------------------------
(* three.js: Object3D.translateZ and Vector3.lerp *)

Sin(d) ==
  CASE d = 0 -> 0
    [] d = 45 -> 7071
    [] d = 90 -> Fine
    [] d = 135 -> 7071
    [] d = 180 -> 0
    [] d = -45 -> -7071
    [] d = -90 -> -Fine
    [] d = -135 -> -7071

Cos(d) ==
  CASE d = 0 -> Fine
    [] d = 45 -> 7071
    [] d = 90 -> 0
    [] d = 135 -> -7071
    [] d = 180 -> -Fine
    [] d = -45 -> 7071
    [] d = -90 -> 0
    [] d = -135 -> -7071

\* the node's local +Z axis under rotation [0, r, 0], in 1/Fine
ForwardAxis(r) == <<Sin(r), 0, Cos(r)>>

\* variant: the node moves along its local -Z
TranslateZBackward(g, dist) ==
  LET axis == ForwardAxis(g.rotation)
  IN  <<g.position[1] - DivT(axis[1] * dist, Fine),
        g.position[2] - DivT(axis[2] * dist, Fine),
        g.position[3] - DivT(axis[3] * dist, Fine)>>

\* variant: a zero distance is replaced by one unit (state.speed || 1)
TranslateZMinStep(g, dist) ==
  LET axis == ForwardAxis(g.rotation)
      step == IF dist = 0 THEN Scale ELSE dist
  IN  <<g.position[1] + DivT(axis[1] * step, Fine),
        g.position[2] + DivT(axis[2] * step, Fine),
        g.position[3] + DivT(axis[3] * step, Fine)>>

\* groupRef.current.translateZ(dist): the node's new position
TranslateZ(g, dist) ==
  LET axis == ForwardAxis(g.rotation)
  IN  <<g.position[1] + DivT(axis[1] * dist, Fine),
        g.position[2] + DivT(axis[2] * dist, Fine),
        g.position[3] + DivT(axis[3] * dist, Fine)>>

\* variant: the camera is copied onto the target, without smoothing
LerpSnap(c, d) == d

\* camera.position.lerp(d, lerpFactor): c += (d - c) * 0.03, per component
Lerp(c, d) ==
  <<c[1] + DivT((d[1] - c[1]) * lerpFactor, 100),
    c[2] + DivT((d[2] - c[2]) * lerpFactor, 100),
    c[3] + DivT((d[3] - c[3]) * lerpFactor, 100)>>

----------------------------------------------------------------------------
(* React: a render with state s applies the changed props to the mounted node *)

ApplyProps(g, old, s) ==
  [position |-> IF s.position # old.position THEN s.position ELSE g.position,
   rotation |-> IF s.rotation # old.rotation THEN s.rotation ELSE g.rotation]

Op(name, e, set) == [name |-> name, e |-> e, set |-> set]

\* the move/frame/stop script: 0 initial, 1 moved, 2 integrated, 3 stopped, 4 off
ScenarioStep(s, name, e) ==
  CASE name = "handleMove" -> IF s = 0 /\ e = Ev(0, -50) THEN 1 ELSE 4
    [] name = "handleStop" -> IF s = 2 THEN 3 ELSE 4
    [] name = "Player" -> IF s = 1 THEN 2 ELSE IF s = 2 THEN 4 ELSE s
    [] OTHER -> s

----------------------------------------------------------------------------
Init ==
  /\ playerState = initialState
  /\ rendered = initialState
  /\ group = [position |-> origin, rotation |-> 0]
  /\ camera = cameraStart
  /\ plane = origin
  /\ skybox = origin
  /\ progress = 0
  /\ loading = TRUE
  /\ loadFrames = 0
  /\ phase = "idle"
  /\ frames = 0
  /\ lastOp = Op("init", NoEvent, FALSE)
  /\ scenario = 0
  /\ camStart = cameraStart
  /\ camTarget = Add(ToFine(initialPosition), cameraOffset)
  /\ camSteps = 0
  /\ camPow = 1000 * Fine

----------------------------------------------------------------------------
(* Joystick handlers (App.tsx:196-219) *)

\* variant: only x is tested for null
moveAcceptedX(e) == ~IsNull(e.x)

\* if (x !== null && y !== null)
moveAccepted(e) == ~IsNull(e.x) /\ ~IsNull(e.y)

\* prev => ({ ...prev, rotation: angle, speed: newSpeed })
moveUpdate(prev, e) ==
  [prev EXCEPT !.rotation = Atan2(Val(e.x), -Val(e.y)),
               !.speed = newSpeed(Val(e.x), Val(e.y))]

\* variant: the stop also resets the heading
stopUpdateResetHeading(prev) == [prev EXCEPT !.speed = 0, !.rotation = 0]

\* prev => ({ ...prev, speed: 0 })
stopUpdate(prev) == [prev EXCEPT !.speed = 0]

\* setPlayerState(update) from an event handler, and the render that follows
Publish(next) ==
  /\ playerState' = next
  /\ rendered' = next
  /\ group' = IF loading THEN group ELSE ApplyProps(group, rendered, next)
  /\ phase' = "idle"

\* no callback is running: between frames, the frame's render done or pending
BetweenFrames == phase \in {"idle", "skybox"}

handleMove(e) ==
  /\ BetweenFrames
  /\ IF moveAccepted(e)
       THEN /\ Publish(moveUpdate(playerState, e))
            /\ lastOp' = Op("handleMove", e, TRUE)
       ELSE /\ UNCHANGED <<playerState, rendered, group, phase>>
            /\ lastOp' = Op("handleMove", e, FALSE)
  /\ scenario' = ScenarioStep(scenario, "handleMove", e)
  /\ UNCHANGED <<camera, plane, skybox, progress, loading, loadFrames, frames,
                 camStart, camTarget, camSteps, camPow>>

handleStop ==
  /\ BetweenFrames
  /\ Publish(stopUpdate(playerState))
  /\ lastOp' = Op("handleStop", NoEvent, TRUE)
  /\ scenario' = ScenarioStep(scenario, "handleStop", NoEvent)
  /\ UNCHANGED <<camera, plane, skybox, progress, loading, loadFrames, frames,
                 camStart, camTarget, camSteps, camPow>>

----------------------------------------------------------------------------
(* Loading (App.tsx:24-30, 231) *)

\* variant: the step without Math.min(., 100)
LoadingStepUncapped(prev) == prev + Scale \div 2

\* prev => Math.min(prev + 0.5, 100)
LoadingStep(prev) == min(prev + Scale \div 2, progressCap * Scale)

LoadingScreenFrame ==
  /\ loading
  /\ phase = "idle"
  /\ loadFrames < MaxLoadFrames
  /\ progress' = LoadingStep(progress)
  /\ loadFrames' = loadFrames + 1
  /\ lastOp' = Op("LoadingScreen", NoEvent, FALSE)
  /\ UNCHANGED <<playerState, rendered, group, camera, plane, skybox, loading,
                 phase, frames, scenario, camStart, camTarget, camSteps, camPow>>

\* the model and the texture resolve: the fallback unmounts (its state is
\* dropped) and the scene mounts with the current props
AssetsLoaded ==
  /\ loading
  /\ phase = "idle"
  /\ loading' = FALSE
  /\ progress' = 0
  /\ group' = [position |-> rendered.position, rotation |-> rendered.rotation]
  /\ lastOp' = Op("AssetsLoaded", NoEvent, FALSE)
  /\ loadFrames' = 0
  /\ UNCHANGED <<playerState, rendered, camera, plane, skybox,
                 phase, frames, scenario, camStart, camTarget, camSteps, camPow>>

----------------------------------------------------------------------------
(* The frame's callbacks *)

\* variant: the mesh takes the whole position, y included
SetXYZ(p) == <<p[1], p[2], p[3]>>

\* mesh.position.set(p[0], 0, p[2])
SetXZ(p) == <<p[1], 0, p[3]>>

\* <ChessboardPlane playerPosition={[0,0,0]} />
planeProp == origin

\* <SkyBox position={playerState.position} />
skyboxProp == rendered.position

\* <FollowCamera target={playerState.position} />
targetProp == rendered.position

ChessboardPlaneFrame(maxFrames) ==
  /\ ~loading
  /\ phase = "idle"
  /\ frames < maxFrames
  /\ plane' = SetXZ(planeProp)
  /\ phase' = "plane"
  /\ frames' = frames + 1
  /\ lastOp' = Op("ChessboardPlane", NoEvent, FALSE)
  /\ UNCHANGED <<playerState, rendered, group, camera, skybox, progress, loading,
                 loadFrames, scenario, camStart, camTarget, camSteps, camPow>>

\* variant: the update starts from the initial state instead of prev
playerUpdateNoSpread(prev, pos) == [initialState EXCEPT !.position = pos]

\* prev => ({ ...prev, position: [pos.x, pos.y, pos.z] })
playerUpdate(prev, pos) == [prev EXCEPT !.position = pos]

PlayerFrame ==
  /\ phase = "plane"
  /\ LET pos == TranslateZ(group, rendered.speed)
     IN  /\ group' = [group EXCEPT !.position = pos]
         /\ playerState' = playerUpdate(playerState, pos)
  /\ phase' = "player"
  /\ lastOp' = Op("Player", NoEvent, TRUE)
  /\ scenario' = ScenarioStep(scenario, "Player", NoEvent)
  /\ UNCHANGED <<rendered, camera, plane, skybox, progress, loading, loadFrames, frames,
                 camStart, camTarget, camSteps, camPow>>

\* targetPos.clone().add(cameraOffset)
desiredPosition == Add(ToFine(targetProp), cameraOffset)

FollowCameraFrame ==
  /\ phase = "player"
  /\ camera' = Lerp(camera, desiredPosition)
  /\ IF desiredPosition = camTarget
       THEN /\ camSteps' = camSteps + 1
            /\ camPow' = (camPow * 97 + 50) \div 100
            /\ UNCHANGED <<camStart, camTarget>>
       ELSE /\ camSteps' = 1
            /\ camPow' = 10 * Fine * 97
            /\ camStart' = camera
            /\ camTarget' = desiredPosition
  /\ phase' = "camera"
  /\ lastOp' = Op("FollowCamera", NoEvent, FALSE)
  /\ UNCHANGED <<playerState, rendered, group, plane, skybox, progress, loading,
                 loadFrames, frames, scenario>>

SkyBoxFrame ==
  /\ phase = "camera"
  /\ skybox' = SetXZ(skyboxProp)
  /\ phase' = "skybox"
  /\ lastOp' = Op("SkyBox", NoEvent, FALSE)
  /\ UNCHANGED <<playerState, rendered, group, camera, plane, progress, loading,
                 loadFrames, frames, scenario, camStart, camTarget, camSteps, camPow>>

\* React renders the state the frame published
Render ==
  /\ phase = "skybox"
  /\ rendered' = playerState
  /\ group' = ApplyProps(group, rendered, playerState)
  /\ phase' = "idle"
  /\ lastOp' = Op("Render", NoEvent, FALSE)
  /\ UNCHANGED <<playerState, camera, plane, skybox, progress, loading, loadFrames, frames,
                 scenario, camStart, camTarget, camSteps, camPow>>

----------------------------------------------------------------------------
Next ==
  \/ \E e \in JoyInputs : handleMove(e)
  \/ handleStop
  \/ LoadingScreenFrame
  \/ AssetsLoaded
  \/ ChessboardPlaneFrame(MaxFrames)
  \/ PlayerFrame
  \/ FollowCameraFrame
  \/ SkyBoxFrame
  \/ Render

Spec == Init /\ [][Next]_vars

\* The camera run: the full program with few joystick inputs, where the player
\* moves for at most one frame among the first MaxCamLead and frames go on
\* until MaxCamFrames.
CameraFrameStart ==
  /\ rendered.speed > 0 => (playerState.position = initialPosition /\ frames < MaxCamLead)
  /\ ChessboardPlaneFrame(MaxCamFrames)

NextCamera ==
  \/ \E e \in CamInputs : handleMove(e)
  \/ handleStop
  \/ AssetsLoaded
  \/ CameraFrameStart
  \/ PlayerFrame
  \/ FollowCameraFrame
  \/ SkyBoxFrame
  \/ Render

SpecCamera == Init /\ [][NextCamera]_vars

----------------------------------------------------------------------------
(* Properties *)

forwardStep == <<0, initialPosition[2], maxSpeed * Scale>>

\* C1: from the initial state, a move event (0, -50) gives rotation 0 and
\* speed 55; one Player frame then gives position (0, 11.5, 55); a stop event
\* then gives speed 0 with rotation unchanged; every frame after the stop
\* leaves the position at (0, 11.5, 55).
C1_EndToEnd ==
  /\ scenario = 1 =>
       /\ playerState.rotation = 0
       /\ playerState.speed = maxSpeed * Scale
       /\ playerState.position = initialPosition
  /\ scenario = 2 =>
       /\ playerState.position = forwardStep
       /\ playerState.rotation = 0
       /\ playerState.speed = maxSpeed * Scale
  /\ scenario = 3 =>
       /\ playerState.speed = 0
       /\ playerState.rotation = 0
       /\ playerState.position = forwardStep
       /\ group.position = forwardStep

C1_Witness == scenario = 3 /\ lastOp.name = "Player" /\ frames >= 2

\* C2: a stop event sets speed to 0 and leaves rotation, position and hp as
\* they were.
C2_StopEffect ==
  [][lastOp'.name = "handleStop" =>
       /\ playerState'.speed = 0
       /\ playerState'.rotation = playerState.rotation
       /\ playerState'.position = playerState.position
       /\ playerState'.hp = playerState.hp]_vars

C2_Witness ==
  /\ lastOp.name = "handleStop"
  /\ playerState.rotation # 0
  /\ playerState.position # initialPosition

\* C3: after a move event with non-null x, y and x^2 + y^2 <= 50^2 the speed
\* is 55 * sqrt(x^2 + y^2) / 50 (to within 0.02, the fixed point's rounding);
\* with a magnitude over 50 it is exactly 55; the speed is in [0, 55] in
\* every state.
C3_SpeedFormula ==
  /\ playerState.speed >= 0
  /\ playerState.speed <= maxSpeed * Scale
  /\ (lastOp.name = "handleMove" /\ lastOp.set) =>
       LET n == Val(lastOp.e.x) * Val(lastOp.e.x) + Val(lastOp.e.y) * Val(lastOp.e.y)
           k == (maxSpeed * Scale) \div stickRange
           v == playerState.speed
       IN  IF n <= stickRange * stickRange
             THEN v * v <= k * k * n /\ k * k * n < (v + 2) * (v + 2)
             ELSE v = maxSpeed * Scale

C3_Witness ==
  /\ lastOp.name = "handleMove"
  /\ lastOp.set
  /\ lastOp.e = Ev(10, -10)
  /\ playerState.speed > 0
  /\ playerState.speed < maxSpeed * Scale

\* C4: a move event whose x or y is null changes nothing of the player state
\* and publishes no update.
C4_NullIgnored ==
  [][(lastOp'.name = "handleMove" /\ (IsNull(lastOp'.e.x) \/ IsNull(lastOp'.e.y))) =>
       /\ playerState' = playerState
       /\ rendered' = rendered
       /\ group' = group
       /\ ~lastOp'.set]_vars

C4_Witness ==
  /\ lastOp.name = "handleMove"
  /\ IsNull(lastOp.e.x)
  /\ ~IsNull(lastOp.e.y)
  /\ playerState.speed > 0
  /\ ~loading

\* C5: a Player frame run while the speed is 0 leaves the position as it was,
\* at any rotation.
C5_ZeroSpeedIdempotent ==
  [][(phase = "plane" /\ phase' = "player" /\ rendered.speed = 0) =>
       /\ playerState'.position = playerState.position
       /\ group'.position = group.position]_vars

C5_Witness ==
  /\ lastOp.name = "Player"
  /\ rendered.speed = 0
  /\ rendered.rotation = 135
  /\ playerState.position # initialPosition
  /\ frames >= 2

\* C6: each frame the ground plane is put at (x, 0, z) of the player's
\* position.
C6_PlaneUnderPlayer ==
  phase = "plane" => plane = <<playerState.position[1], 0, playerState.position[3]>>

\* C7: each frame the skybox is put at (x, 0, z) of the player position it was
\* given, whatever that position's y.
C7_SkyboxRecentered ==
  phase = "skybox" => skybox = <<rendered.position[1], 0, rendered.position[3]>>

C7_Witness ==
  /\ phase = "skybox"
  /\ rendered.position[1] # 0
  /\ rendered.position[2] # 0
  /\ rendered.position[3] # 0

\* 0.97^camSteps, in millionths
Pow97 == (camPow + 5) \div 10

\* a * b / 10^6 for 0 <= a < 10^7 and 0 <= b <= 10^6, by partial products
MulMillionth(a, b) ==
  LET a1 == a \div 1000
      a0 == a % 1000
      b1 == b \div 1000
      b0 == b % 1000
  IN  a1 * b1 + (a1 * b0 + a0 * b1 + (a0 * b0) \div 1000) \div 1000

\* d0 * 0.97^camSteps
Decayed(d0) ==
  IF d0 >= 0 THEN MulMillionth(d0, Pow97) ELSE -MulMillionth(-d0, Pow97)

\* C8: while the player's position is fixed, after n FollowCamera frames the
\* camera's offset from desiredPosition = playerPosition + (0, 45, 0) is the
\* offset it started with times 0.97^n (to within 0.004, the fixed point's
\* rounding), and from 100 frames on it is within 5% of the starting offset.
C8_CameraConverges ==
  \A i \in 1..3 :
    LET d0 == camStart[i] - camTarget[i]
        d == camera[i] - camTarget[i]
    IN  /\ Abs(d - Decayed(d0)) <= 40
        /\ camSteps >= 100 => Abs(d) * 100 <= 5 * Abs(d0)

C8_Witness ==
  /\ camSteps >= 100
  /\ camStart # cameraStart
  /\ camTarget[1] # 0
  /\ camTarget[3] # 0
  /\ camera # camTarget

\* C9: while the assets load, the progress starts at 0, is 0.5 times the
\* number of frames until that reaches 100 and 100 from then on, and never
\* decreases from one frame to the next.
C9_ProgressMonotone ==
  /\ progress = 0
  /\ [][loading' =>
          /\ progress' >= progress
          /\ progress' <= progressCap * Scale
          /\ progress' = min(loadFrames' * (Scale \div 2), progressCap * Scale)]_vars

C9_Witness ==
  /\ loading
  /\ progress = progressCap * Scale
  /\ loadFrames > 2 * progressCap

\* C10: the Player frame changes only the position and keeps rotation, speed
\* and hp; the joystick handlers keep the position; the published position is
\* the node's; hp is 100 throughout.
C10_NoLostUpdate ==
  [][/\ playerState.hp = initialHp
     /\ playerState'.hp = initialHp
     /\ (phase = "plane" /\ phase' = "player") =>
          /\ playerState'.rotation = playerState.rotation
          /\ playerState'.speed = playerState.speed
          /\ playerState'.position = group'.position
     /\ lastOp'.name \in {"handleMove", "handleStop"} =>
          /\ playerState'.position = playerState.position
          /\ ~loading => playerState'.position = group'.position]_vars

C10_Witness ==
  /\ lastOp.name = "handleStop"
  /\ frames >= 2
  /\ playerState.position[1] # 0
  /\ playerState.position[3] # 0
  /\ playerState.rotation = 0

====
